---- MODULE Spec2Model ----
(***************************************************************************)
(* The Ursula console protocol of nucypher/cli/processes.py:                *)
(* UrsulaCommandProtocol, a Twisted LineReceiver.  One session is modelled: *)
(* its fields, the callbacks the transport drives (connectionMade,          *)
(* lineReceived, connectionLost), the nine command handlers, and the        *)
(* environment the handlers act on (stdout, the transport, the node's       *)
(* controls, the reactor).                                                  *)
(*                                                                          *)
(* Text is modelled as sequences of code points and the received line as a  *)
(* sequence of bytes, so that decoding, stripping and lower-casing are      *)
(* computed rather than assumed.                                            *)
(***************************************************************************)
EXTENDS Integers, Sequences, FiniteSets, TLC

VARIABLES
    ursula,        \* self.ursula: the attached node
    start_time,    \* self.start_time
    history,       \* self.__history: deque(maxlen=10) of decoded raw lines
    prompt,        \* self.prompt: bytes
    commands,      \* self.__commands: insertion-ordered dict name -> handler
    phase,         \* "constructed", "connected" or "lost"
    raised,        \* the exception that left the last callback, or "none"
    output,        \* everything emitted so far: click.secho and transport.write
    invoked,       \* the handlers invoked so far, in order
    ursulaCalls,   \* the node controls called so far, in order
    reactorStops,  \* how many times reactor.stop() was called
    received,      \* the lines delivered so far, with the collaborator's outcome
    last,          \* the callback that ran last, and a snapshot taken as it began
    docstrings,     \* whether functions carry __doc__ (python -OO strips it)
    peer           \* a second UrsulaCommandProtocol built on the same node

vars == <<ursula, start_time, history, prompt, commands, phase, raised, output,
          invoked, ursulaCalls, reactorStops, received, last, docstrings, peer>>

----------------------------------------------------------------------------
(* Bounds of the model. *)

\* lines delivered to one session under Spec
MaxLines == 2
\* whitespace characters around a token under SpecTokens
MaxPad == 1
\* letters of a token written in upper case under SpecTokens (besides all of them)
MaxUpper == 1
\* lines delivered to one session under SpecHistory
MaxHistoryLines == 12
\* of which are not the repeated command
MaxOther == 2

\* lines fed to two sessions on one node, both sessions together
MaxSharedLines == 2

----------------------------------------------------------------------------
(* Text. *)

Ascii ==
  <<" ", "!", "\"", "#", "$", "%", "&", "'", "(", ")", "*", "+", ",", "-", ".",
    "/", "0", "1", "2", "3", "4", "5", "6", "7", "8", "9", ":", ";", "<", "=",
    ">", "?", "@", "A", "B", "C", "D", "E", "F", "G", "H", "I", "J", "K", "L",
    "M", "N", "O", "P", "Q", "R", "S", "T", "U", "V", "W", "X", "Y", "Z", "[",
    "<backslash>", "]", "^", "_", "<backtick>", "a", "b", "c", "d", "e", "f", "g", "h", "i", "j",
    "k", "l", "m", "n", "o", "p", "q", "r", "s", "t", "u", "v", "w", "x", "y",
    "z", "{", "|", "}", "~">>

\* the code point of a printable ASCII character
Ord(ch) == 31 + CHOOSE i \in 1..Len(Ascii) : Ascii[i] = ch

\* a string literal, written as a tuple of its characters
Str(s) == [i \in 1..Len(s) |-> Ord(s[i])]

\* str.encode('utf-8'), for code points below 2048 (all the model encodes)
Encode(text) ==
    LET F[i \in 0..Len(text)] ==
            IF i = 0 THEN <<>>
            ELSE IF text[i] < 128 THEN Append(F[i-1], text[i])
            ELSE F[i-1] \o <<192 + (text[i] \div 64), 128 + (text[i] % 64)>>
    IN  F[Len(text)]

\* the docstrings of the handlers, as code points
\* paintHelp.__doc__: '\n        Display this help message.\n        '
Doc_paintHelp ==
    <<10, 32, 32, 32, 32, 32, 32, 32, 32, 68, 105, 115, 112, 108, 97, 121,
      32, 116, 104, 105, 115, 32, 104, 101, 108, 112, 32, 109, 101, 115,
      115, 97, 103, 101, 46, 10, 32, 32, 32, 32, 32, 32, 32, 32>>

\* paintKnownNodes.__doc__: '\n        Display a list of all known nucypher peers.\n        '
Doc_paintKnownNodes ==
    <<10, 32, 32, 32, 32, 32, 32, 32, 32, 68, 105, 115, 112, 108, 97, 121,
      32, 97, 32, 108, 105, 115, 116, 32, 111, 102, 32, 97, 108, 108, 32,
      107, 110, 111, 119, 110, 32, 110, 117, 99, 121, 112, 104, 101, 114,
      32, 112, 101, 101, 114, 115, 46, 10, 32, 32, 32, 32, 32, 32, 32, 32>>

\* paintStatus.__doc__: '\n        Display the current status of the attached Ursula node.\n        '
Doc_paintStatus ==
    <<10, 32, 32, 32, 32, 32, 32, 32, 32, 68, 105, 115, 112, 108, 97, 121,
      32, 116, 104, 101, 32, 99, 117, 114, 114, 101, 110, 116, 32, 115,
      116, 97, 116, 117, 115, 32, 111, 102, 32, 116, 104, 101, 32, 97,
      116, 116, 97, 99, 104, 101, 100, 32, 85, 114, 115, 117, 108, 97, 32,
      110, 111, 100, 101, 46, 10, 32, 32, 32, 32, 32, 32, 32, 32>>

\* paintFleetState.__doc__: '\n        Display information about the network-wide fleet state as the attached Ursula node sees it.\n        '
Doc_paintFleetState ==
    <<10, 32, 32, 32, 32, 32, 32, 32, 32, 68, 105, 115, 112, 108, 97, 121,
      32, 105, 110, 102, 111, 114, 109, 97, 116, 105, 111, 110, 32, 97,
      98, 111, 117, 116, 32, 116, 104, 101, 32, 110, 101, 116, 119, 111,
      114, 107, 45, 119, 105, 100, 101, 32, 102, 108, 101, 101, 116, 32,
      115, 116, 97, 116, 101, 32, 97, 115, 32, 116, 104, 101, 32, 97, 116,
      116, 97, 99, 104, 101, 100, 32, 85, 114, 115, 117, 108, 97, 32, 110,
      111, 100, 101, 32, 115, 101, 101, 115, 32, 105, 116, 46, 10, 32, 32,
      32, 32, 32, 32, 32, 32>>

\* cycle_teacher.__doc__: '\n        Manually direct the attached Ursula node to start learning from a different teacher.\n        '
Doc_cycle_teacher ==
    <<10, 32, 32, 32, 32, 32, 32, 32, 32, 77, 97, 110, 117, 97, 108, 108,
      121, 32, 100, 105, 114, 101, 99, 116, 32, 116, 104, 101, 32, 97,
      116, 116, 97, 99, 104, 101, 100, 32, 85, 114, 115, 117, 108, 97, 32,
      110, 111, 100, 101, 32, 116, 111, 32, 115, 116, 97, 114, 116, 32,
      108, 101, 97, 114, 110, 105, 110, 103, 32, 102, 114, 111, 109, 32,
      97, 32, 100, 105, 102, 102, 101, 114, 101, 110, 116, 32, 116, 101,
      97, 99, 104, 101, 114, 46, 10, 32, 32, 32, 32, 32, 32, 32, 32>>

\* start_learning.__doc__: "\n        Manually start the attached Ursula's node learning protocol.\n        "
Doc_start_learning ==
    <<10, 32, 32, 32, 32, 32, 32, 32, 32, 77, 97, 110, 117, 97, 108, 108,
      121, 32, 115, 116, 97, 114, 116, 32, 116, 104, 101, 32, 97, 116,
      116, 97, 99, 104, 101, 100, 32, 85, 114, 115, 117, 108, 97, 39, 115,
      32, 110, 111, 100, 101, 32, 108, 101, 97, 114, 110, 105, 110, 103,
      32, 112, 114, 111, 116, 111, 99, 111, 108, 46, 10, 32, 32, 32, 32,
      32, 32, 32, 32>>

\* stop_learning.__doc__: "\n        Manually stop the attached Ursula's node learning protocol.\n        "
Doc_stop_learning ==
    <<10, 32, 32, 32, 32, 32, 32, 32, 32, 77, 97, 110, 117, 97, 108, 108,
      121, 32, 115, 116, 111, 112, 32, 116, 104, 101, 32, 97, 116, 116,
      97, 99, 104, 101, 100, 32, 85, 114, 115, 117, 108, 97, 39, 115, 32,
      110, 111, 100, 101, 32, 108, 101, 97, 114, 110, 105, 110, 103, 32,
      112, 114, 111, 116, 111, 99, 111, 108, 46, 10, 32, 32, 32, 32, 32,
      32, 32, 32>>

\* stop.__doc__: '\n        Shutdown the attached running Ursula node.\n        '
Doc_stop ==
    <<10, 32, 32, 32, 32, 32, 32, 32, 32, 83, 104, 117, 116, 100, 111,
      119, 110, 32, 116, 104, 101, 32, 97, 116, 116, 97, 99, 104, 101,
      100, 32, 114, 117, 110, 110, 105, 110, 103, 32, 85, 114, 115, 117,
      108, 97, 32, 110, 111, 100, 101, 46, 10, 32, 32, 32, 32, 32, 32, 32,
      32>>

\* bytes.decode('utf-8'), strict: the text, or ok = FALSE where Python raises
\* UnicodeDecodeError (a stray or missing continuation byte, an overlong
\* form, a surrogate, a code point above U+10FFFF)
IsCont(b) == b >= 128 /\ b <= 191

RECURSIVE DecodeFrom(_, _, _)
DecodeFrom(bs, i, acc) ==
    IF i > Len(bs) THEN [ok |-> TRUE, text |-> acc]
    ELSE LET b == bs[i]
             c(k) == bs[i + k]
             has(k) == i + k <= Len(bs) /\ \A j \in 1..k : IsCont(bs[i + j])
         IN  IF b < 128 THEN DecodeFrom(bs, i + 1, Append(acc, b))
             ELSE IF b >= 194 /\ b <= 223 /\ has(1)
                  THEN DecodeFrom(bs, i + 2,
                                  Append(acc, (b - 192) * 64 + (c(1) - 128)))
             ELSE IF /\ b >= 224 /\ b <= 239 /\ has(2)
                     /\ (b = 224 => c(1) >= 160)
                     /\ (b = 237 => c(1) <= 159)
                  THEN DecodeFrom(bs, i + 3,
                                  Append(acc, (b - 224) * 4096 + (c(1) - 128) * 64
                                              + (c(2) - 128)))
             ELSE IF /\ b >= 240 /\ b <= 244 /\ has(3)
                     /\ (b = 240 => c(1) >= 144)
                     /\ (b = 244 => c(1) <= 143)
                  THEN DecodeFrom(bs, i + 4,
                                  Append(acc, (b - 240) * 262144 + (c(1) - 128) * 4096
                                              + (c(2) - 128) * 64 + (c(3) - 128)))
             ELSE [ok |-> FALSE, text |-> <<>>]

Decode(bs) == DecodeFrom(bs, 1, <<>>)

\* str.isspace() of one character: the characters str.strip() removes
IsSpace(c) ==
    \/ c \in 9..13
    \/ c \in 28..32
    \/ c \in {133, 160, 5760, 8232, 8233, 8239, 8287, 12288}
    \/ c \in 8192..8202

\* str.lstrip(): without its leading whitespace
RECURSIVE LStrip(_)
LStrip(text) ==
    IF text # <<>> /\ IsSpace(Head(text)) THEN LStrip(Tail(text)) ELSE text

\* str.rstrip(): without its trailing whitespace
RECURSIVE RStrip(_)
RStrip(text) ==
    IF text # <<>> /\ IsSpace(text[Len(text)])
    THEN RStrip(SubSeq(text, 1, Len(text) - 1))
    ELSE text

\* str.strip(): without its leading and trailing whitespace
Strip(text) == RStrip(LStrip(text))

\* str.lower() of one character: ASCII, Latin-1, and the two letter-like
\* symbols whose lower case is an ASCII or Latin-1 letter
LowerChar(c) ==
    IF c \in 65..90 THEN c + 32
    ELSE IF c \in 192..222 /\ c # 215 THEN c + 32
    ELSE IF c = 8490 THEN 107
    ELSE IF c = 8491 THEN 229
    ELSE c

\* a faulty lower(): folds nothing
LowerNoFold(text) == text

\* str.lower()
Lower(text) == [i \in 1..Len(text) |-> LowerChar(text[i])]

\* str.upper() of one ASCII letter, to write a token in another case
UpperChar(c) == IF c \in 97..122 THEN c - 32 ELSE c

----------------------------------------------------------------------------
(* The node and the session's fields. *)

\* the nodes a session may be attached to: what the console reads of them
Nodes ==
    { [checksum_public_address |-> Str(<<"0", "x", "A", "b", "5", "8", "0", "1",
                                          "a", "7", "D", "3">>),
       rest_url |-> Str(<<"1", "0", ".", "0", ".", "0", ".", "1", ":", "9", "1",
                          "5", "1">>),
       nickname |-> Str(<<"R", "e", "d">>),
       nickname_icon |-> Str(<<"[", "R", "]">>),
       fleet_state |-> Str(<<"f", "s", "1">>)],
      [checksum_public_address |-> Str(<<"0", "x", "9", "c", "0", "E", "4", "4",
                                          "f", "2", "B", "b">>),
       rest_url |-> Str(<<"1", "0", ".", "0", ".", "0", ".", "2", ":", "9", "1",
                          "5", "1">>),
       nickname |-> Str(<<"T", "e", "a", "l">>),
       nickname_icon |-> Str(<<"[", "T", "]">>),
       fleet_state |-> Str(<<"f", "s", "2">>)] }

\* maya.now() at construction
StartTimes == {1550000000}

\* 'Ursula({}) >>> '.format(checksum_public_address[:9]) as UTF-8 bytes
Prompt(node) ==
    Encode(Str(<<"U", "r", "s", "u", "l", "a", "(">>)
           \o SubSeq(node.checksum_public_address, 1, 9)
           \o Str(<<")", " ", ">", ">", ">", " ">>))

\* deque(maxlen=10)
HistoryMaxLen == 10

\* the command table, in insertion order
Commands ==
    << [name |-> Str(<<"?">>), handler |-> "paintHelp"],
       [name |-> Str(<<"h", "e", "l", "p">>), handler |-> "paintHelp"],
       [name |-> Str(<<"s", "t", "a", "t", "u", "s">>), handler |-> "paintStatus"],
       [name |-> Str(<<"k", "n", "o", "w", "n", "_", "n", "o", "d", "e", "s">>),
        handler |-> "paintKnownNodes"],
       [name |-> Str(<<"f", "l", "e", "e", "t", "_", "s", "t", "a", "t", "e">>),
        handler |-> "paintFleetState"],
       [name |-> Str(<<"c", "y", "c", "l", "e", "_", "t", "e", "a", "c", "h", "e",
                       "r">>),
        handler |-> "cycle_teacher"],
       [name |-> Str(<<"s", "t", "a", "r", "t", "_", "l", "e", "a", "r", "n", "i",
                       "n", "g">>),
        handler |-> "start_learning"],
       [name |-> Str(<<"s", "t", "o", "p", "_", "l", "e", "a", "r", "n", "i", "n",
                       "g">>),
        handler |-> "stop_learning"],
       [name |-> Str(<<"s", "t", "o", "p">>), handler |-> "stop"] >>

\* a faulty keys(): the names in reverse order
KeysReversed(cmds) == [i \in 1..Len(cmds) |-> cmds[Len(cmds) + 1 - i].name]

\* self.__commands.keys(), in insertion order
Keys(cmds) == [i \in 1..Len(cmds) |-> cmds[i].name]

\* self.__commands[key]: the handler, or "KeyError"
Lookup(cmds, key) ==
    IF \E i \in 1..Len(cmds) : cmds[i].name = key
    THEN cmds[CHOOSE i \in 1..Len(cmds) : cmds[i].name = key].handler
    ELSE "KeyError"

\* func.__doc__ of a handler
Doc(handler) ==
    CASE handler = "paintHelp" -> Doc_paintHelp
      [] handler = "paintKnownNodes" -> Doc_paintKnownNodes
      [] handler = "paintStatus" -> Doc_paintStatus
      [] handler = "paintFleetState" -> Doc_paintFleetState
      [] handler = "cycle_teacher" -> Doc_cycle_teacher
      [] handler = "start_learning" -> Doc_start_learning
      [] handler = "stop_learning" -> Doc_stop_learning
      [] handler = "stop" -> Doc_stop

----------------------------------------------------------------------------
(* What the callbacks emit and call. *)

\* click.secho(fmt.format(*args))
Secho(fmt, args) == [chan |-> "stdout", fmt |-> fmt, args |-> args]

\* self.transport.write(data)
Write(data) == [chan |-> "transport", fmt |-> "{}", args |-> <<data>>]

\* a call of a control of the node; stop_learning_loop takes a reason
NoReason == "<default>"
Call(method, reason) == [method |-> method, reason |-> reason]

\* what a collaborator called by a handler may do: return, or raise
Outcomes == {"none", "KeyError", "RuntimeError"}

\* the disconnect causes the transport reports; connectionDone is the default
Reasons == {"connectionDone", "connectionAborted"}

\* what running a handler does: its output, the node controls and reactor
\* stops it calls, and the exception that leaves it ("none": it returns)
Effect(out, calls, stops, exc) ==
    [out |-> out, calls |-> calls, stops |-> stops, exc |-> exc]

\* sep.join(parts)
Join(sep, parts) ==
    LET F[i \in 0..Len(parts)] ==
            IF i = 0 THEN <<>>
            ELSE IF i = 1 THEN parts[1]
            ELSE F[i-1] \o sep \o parts[i]
    IN  F[Len(parts)]

----------------------------------------------------------------------------
(* The command handlers.  o is the outcome of the one collaborator the      *)
(* handler calls.                                                           *)

\* the handlers whose __doc__ is a string: all are defined with a docstring,
\* and an interpreter run with -OO leaves every __doc__ None
Documented ==
    IF docstrings
    THEN {"paintHelp", "paintKnownNodes", "paintStatus", "paintFleetState",
          "cycle_teacher", "start_learning", "stop_learning", "stop"}
    ELSE {}

\* a faulty test: no command is taken for the alias
HasQuestionMarkNever(command) == FALSE

\* '?' in command
HasQuestionMark(command) == \E i \in 1..Len(command) : command[i] = Ord("?")

\* the entry paintHelp prints for one command
HelpEntry(cmd) ==
    Secho("{command}/{dashes}/{doc}",
          <<cmd.name, [i \in 1..Len(cmd.name) |-> Ord("-")],
            LStrip(Doc(cmd.handler))>>)

paintHelp ==
    LET listed == SelectSeq(commands, LAMBDA cmd : ~HasQuestionMark(cmd.name))
        bad == {i \in 1..Len(listed) : listed[i].handler \notin Documented}
        upto == IF bad = {} THEN Len(listed)
                ELSE (CHOOSE i \in bad : \A j \in bad : i <= j) - 1
    IN  Effect(<<Secho("Ursula Command Help", <<>>)>>
                 \o [i \in 1..upto |-> HelpEntry(listed[i])],
               <<>>, 0,
               IF bad = {} THEN "none" ELSE "AttributeError")

paintKnownNodes(o) ==
    Effect(IF o = "none"
           THEN <<Secho("paint_known_nodes", <<ursula.checksum_public_address>>)>>
           ELSE <<>>,
           <<>>, 0, o)

paintStatus(o) ==
    Effect(IF o = "none"
           THEN <<Secho("paint_node_status",
                        <<ursula.checksum_public_address, <<start_time>>>>)>>
           ELSE <<>>,
           <<>>, 0, o)

paintFleetState(o) ==
    Effect(IF o = "none" THEN <<Secho("{}", <<ursula.fleet_state>>)>> ELSE <<>>,
           <<>>, 0, o)

cycle_teacher(o) == Effect(<<>>, <<Call("cycle_teacher_node", NoReason)>>, 0, o)

\* a faulty start_learning: calls the control of cycle_teacher
start_learningCycles(o) ==
    Effect(<<>>, <<Call("cycle_teacher_node", NoReason)>>, 0, o)

start_learning(o) == Effect(<<>>, <<Call("start_learning_loop", NoReason)>>, 0, o)

stop_learning(o) == Effect(<<>>, <<Call("stop_learning_loop", NoReason)>>, 0, o)

\* a faulty stop: asks the reactor to stop only as its last step, so a
\* failure before it leaves the reactor running
stopHaltsLast(o) == Effect(<<>>, <<>>, IF o = "none" THEN 1 ELSE 0, o)

\* a faulty stop: returns without asking the reactor to stop
stopWithoutHalt(o) == Effect(<<>>, <<>>, 0, o)

stop(o) == Effect(<<>>, <<>>, 1, o)

\* handler(): the call of a bound method of the table
Invoke(handler, o) ==
    CASE handler = "paintHelp" -> paintHelp
      [] handler = "paintKnownNodes" -> paintKnownNodes(o)
      [] handler = "paintStatus" -> paintStatus(o)
      [] handler = "paintFleetState" -> paintFleetState(o)
      [] handler = "cycle_teacher" -> cycle_teacher(o)
      [] handler = "start_learning" -> start_learning(o)
      [] handler = "stop_learning" -> stop_learning(o)
      [] handler = "stop" -> stop(o)

\* whether a handler calls a collaborator at all (paintHelp does not)
HasCollaborator(handler) == handler \notin {"paintHelp", "KeyError"}

----------------------------------------------------------------------------
(* lineReceived, step by step. *)

\* line = raw_line.strip().lower()
Normalize(raw_line) == Lower(Strip(raw_line))

\* try: self.__commands[line]()  -- the handlers invoked, and the effect; a
\* missing key is a KeyError raised before any handler runs
Evaluate(key, o) ==
    LET handler == Lookup(commands, key)
    IN  IF handler = "KeyError"
        THEN [invoked |-> <<>>, eff |-> Effect(<<>>, <<>>, 0, "KeyError")]
        ELSE [invoked |-> <<handler>>, eff |-> Invoke(handler, o)]

\* a faulty except branch: stays silent on every unknown line
ExceptKeyErrorSilent(key) == <<>>

\* a faulty except branch: reports the empty line too
ExceptKeyErrorAlways(key) ==
    <<Secho("Invalid input. Options are {}",
            <<Join(Str(<<",", " ">>), Keys(commands))>>)>>

\* except KeyError: if line: click.secho("Invalid input. Options are ...")
ExceptKeyError(key) ==
    IF key # <<>>
    THEN <<Secho("Invalid input. Options are {}",
                 <<Join(Str(<<",", " ">>), Keys(commands))>>)>>
    ELSE <<>>

\* a faulty deque: full, it refuses the new entry instead of dropping the oldest
DequeAppendKeepOldest(h, x) == IF Len(h) < HistoryMaxLen THEN Append(h, x) ELSE h

\* deque(maxlen=10).append(x): full, the oldest entry is dropped
DequeAppend(h, x) ==
    IF Len(h) < HistoryMaxLen THEN Append(h, x) ELSE Append(Tail(h), x)

\* a faulty else branch: records the lookup key
HistoryEntryKey(raw_line, key) == key

\* else: self.__history.append(raw_line)  -- what is recorded
HistoryEntry(raw_line, key) == raw_line

\* a faulty try: the else clause runs whatever the handler raised
TryElseRunsAlways(exc) == TRUE

\* try/except KeyError/else: the else clause runs when nothing was raised
TryElseRuns(exc) == exc = "none"

\* the whole of lineReceived(line) on a session whose history is h and whose
\* prompt is p: what it emits, invokes and calls, the
\* history after it and the exception that leaves it
lineReceivedOn(h, p, line, o) ==
    LET dec == Decode(line)
        raw_line == dec.text
        key == Normalize(raw_line)
        ev == Evaluate(key, o)
        exc == ev.eff.exc
        loop == <<Write(p)>>
    IN  IF ~dec.ok
        THEN [raised |-> "UnicodeDecodeError", out |-> <<>>, invoked |-> <<>>,
              calls |-> <<>>, stops |-> 0, history |-> h]
        ELSE IF exc = "KeyError"
        THEN [raised |-> "none",
              out |-> ev.eff.out \o ExceptKeyError(key) \o loop,
              invoked |-> ev.invoked, calls |-> ev.eff.calls,
              stops |-> ev.eff.stops, history |-> h]
        ELSE IF TryElseRuns(exc)
        THEN [raised |-> "none", out |-> ev.eff.out \o loop,
              invoked |-> ev.invoked, calls |-> ev.eff.calls,
              stops |-> ev.eff.stops,
              history |-> DequeAppend(h, HistoryEntry(raw_line, key))]
        ELSE [raised |-> exc, out |-> ev.eff.out, invoked |-> ev.invoked,
              calls |-> ev.eff.calls, stops |-> ev.eff.stops,
              history |-> h]

\* lineReceived on this session: self.__history and self.prompt
lineReceived(line, o) == lineReceivedOn(history, prompt, line, o)

\* the collaborator outcome o is meaningful only where a collaborator is called
Consults(line, o) ==
    \/ o = "none"
    \/ /\ Decode(line).ok
       /\ HasCollaborator(Lookup(commands, Normalize(Decode(line).text)))

----------------------------------------------------------------------------
(* The state machine. *)

\* what a callback finds as it begins, kept to tell what it changed
Snapshot(op, reason) ==
    [op |-> op, reason |-> reason, history |-> history, nout |-> Len(output),
     ninvoked |-> Len(invoked), ncalls |-> Len(ursulaCalls),
     nstops |-> reactorStops]

\* __init__(ursula), in either kind of interpreter run: it builds the table
\* and looks at no docstring
InitAnyBuild ==
    /\ docstrings \in BOOLEAN
    /\ ursula \in Nodes
    /\ start_time \in StartTimes
    /\ history = <<>>
    /\ prompt = Prompt(ursula)
    /\ commands = Commands
    /\ phase = "constructed"
    /\ raised = "none"
    /\ output = <<>>
    /\ invoked = <<>>
    /\ ursulaCalls = <<>>
    /\ reactorStops = 0
    /\ received = <<>>
    /\ last = [op |-> "__init__", reason |-> NoReason, history |-> <<>>,
               nout |-> 0, ninvoked |-> 0, ncalls |-> 0, nstops |-> 0]
    /\ peer = [phase |-> "constructed", history |-> <<>>,
               prompt |-> Prompt(ursula), raised |-> "none",
               transport |-> <<>>, received |-> <<>>]

\* __init__(ursula) in an ordinary run, where the docstrings are kept
Init == InitAnyBuild /\ docstrings

\* a faulty connectionMade: rebuilds the prompt from the node's nickname
ConnectionMadeReprompts ==
    /\ phase = "constructed"
    /\ phase' = "connected"
    /\ last' = Snapshot("connectionMade", NoReason)
    /\ prompt' = Encode(ursula.nickname)
    /\ output' = output \o
         << Secho("Attached {}@{}",
                  <<ursula.checksum_public_address, ursula.rest_url>>),
            Secho("{} | {}", <<ursula.nickname_icon, ursula.nickname>>),
            Secho("Type 'help' or '?' for help", <<>>),
            Write(prompt') >>
    /\ raised' = "none"
    /\ UNCHANGED <<ursula, start_time, history, commands, invoked,
                   ursulaCalls, reactorStops, received, docstrings, peer>>

ConnectionMade ==
    /\ phase = "constructed"
    /\ phase' = "connected"
    /\ last' = Snapshot("connectionMade", NoReason)
    /\ output' = output \o
         << Secho("Attached {}@{}",
                  <<ursula.checksum_public_address, ursula.rest_url>>),
            Secho("{} | {}", <<ursula.nickname_icon, ursula.nickname>>),
            Secho("Type 'help' or '?' for help", <<>>),
            Write(prompt) >>
    /\ raised' = "none"
    /\ UNCHANGED <<ursula, start_time, history, prompt, commands, invoked,
                   ursulaCalls, reactorStops, received, docstrings, peer>>

\* a faulty connectionLost: reports the default cause whatever it was given
LostCallDefault(reason) == Call("stop_learning_loop", "connectionDone")

\* self.ursula.stop_learning_loop(reason=reason)
LostCall(reason) == Call("stop_learning_loop", reason)

\* connectionLost(reason); o is what the node's control does
ConnectionLost(reason, o) ==
    /\ phase = "connected"
    /\ phase' = "lost"
    /\ last' = Snapshot("connectionLost", reason)
    /\ ursulaCalls' = Append(ursulaCalls, LostCall(reason))
    /\ raised' = o
    /\ UNCHANGED <<ursula, start_time, history, prompt, commands, output,
                   invoked, reactorStops, received, docstrings, peer>>

\* lineReceived(line), with outcome o of the collaborator it reaches
LineReceived(line, o) ==
    /\ phase = "connected"
    /\ Consults(line, o)
    /\ LET r == lineReceived(line, o)
       IN  /\ raised' = r.raised
           /\ output' = output \o r.out
           /\ invoked' = invoked \o r.invoked
           /\ ursulaCalls' = ursulaCalls \o r.calls
           /\ reactorStops' = reactorStops + r.stops
           /\ history' = r.history
    /\ received' = Append(received, [line |-> line, outcome |-> o])
    /\ last' = Snapshot("lineReceived", NoReason)
    /\ UNCHANGED <<ursula, start_time, prompt, commands, phase, docstrings, peer>>

----------------------------------------------------------------------------
(* The lines a session is fed. *)

\* the registered tokens, as text
Tokens == {Commands[i].name : i \in 1..Len(Commands)}

\* bytes of the lines fed under Spec: commands in several spellings, an
\* unknown token, the empty line, blank lines, and bytes that are not UTF-8
SessionLines ==
    { Encode(Str(<<"S", "T", "A", "T", "U", "S">>)),
      Encode(Str(<<" ", "s", "t", "o", "p">>) \o <<13>>),
      Encode(<<160>> \o Str(<<"H", "e", "l", "p">>)),
      Encode(Str(<<"s", "t", "o", "p", "_", "l", "e", "a", "r", "n", "i", "n",
                   "g">>)),
      Encode(Str(<<"f", "r", "o", "b", "n", "i", "c", "a", "t", "e">>)),
      <<>>,
      Encode(<<32, 9>>),
      <<255>> }

\* what a collaborator of connectionLost may do
LostOutcomes == {"none", "RuntimeError"}

\* the whitespace put around a token under SpecTokens: space, tab, no-break space
PadChars == {32, 9, 160}

RECURSIVE Pads(_)
Pads(n) ==
    IF n = 0 THEN {<<>>}
    ELSE Pads(n - 1) \cup {Append(p, c) : p \in Pads(n - 1), c \in PadChars}

\* the positions of a token that hold a letter
LetterPositions(tok) == {i \in 1..Len(tok) : tok[i] \in 97..122}

\* a token with the letters at the positions of ups in upper case
Cased(tok, ups) ==
    [i \in 1..Len(tok) |-> IF i \in ups THEN UpperChar(tok[i]) ELSE tok[i]]

RECURSIVE SubsetsUpTo(_, _)
SubsetsUpTo(S, n) ==
    IF n = 0 THEN {{}}
    ELSE SubsetsUpTo(S, n - 1)
         \cup {T \cup {x} : T \in SubsetsUpTo(S, n - 1), x \in S}

\* the spellings of a token: at most MaxUpper letters in upper case, or all
Spellings(tok) ==
    {Cased(tok, ups) : ups \in SubsetsUpTo(LetterPositions(tok), MaxUpper)
                               \cup {LetterPositions(tok)}}

\* bytes of the lines fed under SpecTokens: every spelling of every token,
\* with at most MaxPad whitespace characters around it in all
TokenLines ==
    UNION { {Encode(l \o s \o r) :
                r \in Pads(MaxPad - Len(l)),
                s \in UNION {Spellings(tok) : tok \in Tokens}} :
            l \in Pads(MaxPad) }

\* bytes of the lines fed under SpecHistory: a command that is repeated,
\* another command, and an unknown token
RepeatedLine == Encode(Str(<<"S", "T", "A", "T", "U", "S">>))

HistoryLines ==
    { RepeatedLine,
      Encode(Str(<<" ", "s", "t", "o", "p">>) \o <<13>>),
      Encode(Str(<<"f", "r", "o", "b", "n", "i", "c", "a", "t", "e">>)) }

\* how many of the delivered lines are not the repeated command
Others == Cardinality({i \in 1..Len(received) : received[i].line # RepeatedLine})

----------------------------------------------------------------------------
(* Specifications. *)

LineReceivedSession ==
    /\ phase = "connected"
    /\ Len(received) < MaxLines
    /\ \E line \in SessionLines, o \in Outcomes : LineReceived(line, o)

ConnectionLostAny ==
    \E reason \in Reasons, o \in LostOutcomes : ConnectionLost(reason, o)

Next == ConnectionMade \/ LineReceivedSession \/ ConnectionLostAny

\* one session fed up to MaxLines lines
Spec == Init /\ [][Next]_vars

LineReceivedToken ==
    /\ phase = "connected"
    /\ received = <<>>
    /\ \E line \in TokenLines, o \in Outcomes : LineReceived(line, o)

ConnectionLostDone == ConnectionLost("connectionDone", "none")

NextTokens == ConnectionMade \/ LineReceivedToken \/ ConnectionLostDone

\* one session fed one line: a token in some spelling
SpecTokens == Init /\ [][NextTokens]_vars

LineReceivedHistory ==
    /\ phase = "connected"
    /\ Len(received) < MaxHistoryLines
    /\ \E line \in HistoryLines :
        /\ line # RepeatedLine => Others < MaxOther
        /\ LineReceived(line, "none")

NextHistory == ConnectionMade \/ LineReceivedHistory \/ ConnectionLostDone

\* one session fed enough lines to overflow the history
SpecHistory == Init /\ [][NextHistory]_vars

\* one session fed up to MaxLines lines, in either kind of interpreter run
SpecAnyBuild == InitAnyBuild /\ [][Next]_vars

----------------------------------------------------------------------------
(* A second session on the same node: another UrsulaCommandProtocol(ursula).
   Its fields are its own; click.secho goes to the process's stdout, the
   node and the reactor are the ones the first session uses. *)

\* the entries of out emitted on one channel
OnChannel(chan, out) ==
    LET Is(e) == e.chan = chan
    IN  SelectSeq(out, Is)

\* connectionMade() on the second session
PeerConnectionMade ==
    /\ peer.phase = "constructed"
    /\ peer' = [peer EXCEPT !.phase = "connected", !.raised = "none",
                            !.transport = Append(@, Write(peer.prompt))]
    /\ output' = output \o
         << Secho("Attached {}@{}",
                  <<ursula.checksum_public_address, ursula.rest_url>>),
            Secho("{} | {}", <<ursula.nickname_icon, ursula.nickname>>),
            Secho("Type 'help' or '?' for help", <<>>) >>
    /\ last' = Snapshot("peer.connectionMade", NoReason)
    /\ UNCHANGED <<ursula, start_time, history, prompt, commands, phase,
                   raised, invoked, ursulaCalls, reactorStops, received,
                   docstrings>>

\* connectionLost(reason) on the second session
PeerConnectionLost(reason, o) ==
    /\ peer.phase = "connected"
    /\ peer' = [peer EXCEPT !.phase = "lost", !.raised = o]
    /\ ursulaCalls' = Append(ursulaCalls, LostCall(reason))
    /\ last' = Snapshot("peer.connectionLost", reason)
    /\ UNCHANGED <<ursula, start_time, history, prompt, commands, phase,
                   raised, output, invoked, reactorStops, received,
                   docstrings>>

\* a faulty second session: the history deque is one object shared by every
\* session (a class attribute), not one made in __init__
PeerLineReceivedSharedDeque(line, o) ==
    /\ peer.phase = "connected"
    /\ Consults(line, o)
    /\ LET r == lineReceivedOn(history, peer.prompt, line, o)
       IN  /\ peer' = [peer EXCEPT
                         !.history = r.history,
                         !.raised = r.raised,
                         !.transport = @ \o OnChannel("transport", r.out),
                         !.received = Append(@, [line |-> line, outcome |-> o])]
           /\ history' = r.history
           /\ output' = output \o OnChannel("stdout", r.out)
           /\ invoked' = invoked \o r.invoked
           /\ ursulaCalls' = ursulaCalls \o r.calls
           /\ reactorStops' = reactorStops + r.stops
    /\ last' = Snapshot("peer.lineReceived", NoReason)
    /\ UNCHANGED <<ursula, start_time, prompt, commands, phase, raised,
                   received, docstrings>>

\* lineReceived(line) on the second session
PeerLineReceived(line, o) ==
    /\ peer.phase = "connected"
    /\ Consults(line, o)
    /\ LET r == lineReceivedOn(peer.history, peer.prompt, line, o)
       IN  /\ peer' = [peer EXCEPT
                         !.history = r.history,
                         !.raised = r.raised,
                         !.transport = @ \o OnChannel("transport", r.out),
                         !.received = Append(@, [line |-> line, outcome |-> o])]
           /\ output' = output \o OnChannel("stdout", r.out)
           /\ invoked' = invoked \o r.invoked
           /\ ursulaCalls' = ursulaCalls \o r.calls
           /\ reactorStops' = reactorStops + r.stops
    /\ last' = Snapshot("peer.lineReceived", NoReason)
    /\ UNCHANGED <<ursula, start_time, history, prompt, commands, phase,
                   raised, received, docstrings>>

\* the lines fed to two sessions: a halt, a node control, an unknown word
SharedLines ==
    { Encode(Str(<<" ", "s", "t", "o", "p">>) \o <<13>>),
      Encode(Str(<<"s", "t", "o", "p", "_", "l", "e", "a", "r", "n", "i",
                   "n", "g">>)),
      Encode(Str(<<"f", "r", "o", "b", "n", "i", "c", "a", "t", "e">>)) }

SharedOutcomes == {"none", "RuntimeError"}

LineReceivedShared ==
    /\ phase = "connected"
    /\ Len(received) + Len(peer.received) < MaxSharedLines
    /\ \E line \in SharedLines, o \in SharedOutcomes : LineReceived(line, o)

PeerLineReceivedShared ==
    /\ peer.phase = "connected"
    /\ Len(received) + Len(peer.received) < MaxSharedLines
    /\ \E line \in SharedLines, o \in SharedOutcomes : PeerLineReceived(line, o)

PeerConnectionLostDone == PeerConnectionLost("connectionDone", "none")

NextShared ==
    \/ ConnectionMade
    \/ LineReceivedShared
    \/ ConnectionLostDone
    \/ PeerConnectionMade
    \/ PeerLineReceivedShared
    \/ PeerConnectionLostDone

\* two sessions on one node, their callbacks interleaved in any order
SpecShared == Init /\ [][NextShared]_vars

----------------------------------------------------------------------------
(* Reading a state: what the callback that ran last did, and what the       *)
(* delivered lines were, spelled out without the code's own normalisation.  *)

\* what the last callback emitted, invoked, called and stopped
Emitted == SubSeq(output, last.nout + 1, Len(output))
InvokedNow == SubSeq(invoked, last.ninvoked + 1, Len(invoked))
CallsNow == SubSeq(ursulaCalls, last.ncalls + 1, Len(ursulaCalls))
StopsNow == reactorStops - last.nstops

\* the line the last lineReceived was given, and its collaborator's outcome
LastLine == received[Len(received)].line
LastOutcome == received[Len(received)].outcome
LineDone == last.op = "lineReceived"

IsInvalidInput(e) == e.chan = "stdout" /\ e.fmt = "Invalid input. Options are {}"
IsPromptWrite(e) == e.chan = "transport" /\ e.args = <<prompt>>
Count(seq, Test(_)) == Cardinality({i \in 1..Len(seq) : Test(seq[i])})
EndsWithPrompt(seq) == seq # <<>> /\ IsPromptWrite(seq[Len(seq)])

\* the whitespace the fed lines use: tab, carriage return, space, no-break space
Blanks == {9, 13, 32, 160}

\* a is letter b of a token, in either case
SameLetter(a, b) == a = b \/ (b \in 97..122 /\ a = b - 32)

\* text is tok in some letter case, with nothing but whitespace around it
Spells(text, tok) ==
    \E i \in 1..(Len(text) + 1) :
        LET j == i + Len(tok) - 1
        IN  /\ j <= Len(text)
            /\ \A k \in 1..Len(tok) : SameLetter(text[i + k - 1], tok[k])
            /\ \A k \in (1..(i - 1)) \cup ((j + 1)..Len(text)) : text[k] \in Blanks

SpellsSomeToken(text) == \E i \in 1..Len(Commands) : Spells(text, Commands[i].name)

\* the delivered lines that were dispatched and whose handler returned
WasAccepted(e) ==
    /\ Decode(e.line).ok
    /\ SpellsSomeToken(Decode(e.line).text)
    /\ e.outcome = "none"

AcceptedLines ==
    LET acc == SelectSeq(received, WasAccepted)
    IN  [i \in 1..Len(acc) |-> acc[i].line]

LastN(seq, n) ==
    IF Len(seq) <= n THEN seq ELSE SubSeq(seq, Len(seq) - n + 1, Len(seq))

----------------------------------------------------------------------------
(* The claims. *)

\* C1: a line that spells a registered token, in any letter case and with
\* any whitespace around it, invokes the handler registered for that token,
\* exactly once, and no other handler.
C1_TokenInvokesItsHandler ==
    LineDone /\ Decode(LastLine).ok =>
        \A i \in 1..Len(Commands) :
            Spells(Decode(LastLine).text, Commands[i].name)
                => InvokedNow = <<Commands[i].handler>>

\* a padded, upper-cased "known_nodes" reached paintKnownNodes
C1_Witness ==
    /\ LineDone
    /\ Decode(LastLine).ok
    /\ Spells(Decode(LastLine).text, Commands[4].name)
    /\ Decode(LastLine).text # Commands[4].name
    /\ Len(LastLine) > Len(Commands[4].name)
    /\ \A k \in 1..Len(LastLine) : LastLine[k] \notin 97..122
    /\ InvokedNow = <<"paintKnownNodes">>

\* C2: the history holds at most 10 entries, exactly the (up to) 10 most
\* recently accepted raw lines, in arrival order.
C2_HistoryIsLastTen ==
    /\ Len(history) <= 10
    /\ [i \in 1..Len(history) |-> Encode(history[i])] = LastN(AcceptedLines, 10)

\* twelve commands were accepted: the first, not the repeated command, was
\* dropped, and the third, not the repeated command either, is now the oldest
C2_Witness ==
    /\ Len(AcceptedLines) = 12
    /\ AcceptedLines[1] # RepeatedLine
    /\ AcceptedLines[3] # RepeatedLine
    /\ Len(history) = 10
    /\ Encode(history[1]) = AcceptedLines[3]
    /\ Encode(history[10]) = RepeatedLine

\* C3: a line whose trimmed, lower-cased form is non-empty and not a
\* registered token emits the invalid-input message, invokes no handler and
\* leaves the history as it was.
C3_UnknownTokenReported ==
    ( /\ LineDone
      /\ Decode(LastLine).ok
      /\ Normalize(Decode(LastLine).text) # <<>>
      /\ Normalize(Decode(LastLine).text) \notin Tokens )
    => /\ Count(Emitted, IsInvalidInput) = 1
       /\ InvokedNow = <<>>
       /\ history = last.history

\* "frobnicate" was rejected with a command already in the history
C3_Witness ==
    /\ LineDone
    /\ LastLine = Encode(Str(<<"f", "r", "o", "b", "n", "i", "c", "a", "t", "e">>))
    /\ Count(Emitted, IsInvalidInput) = 1
    /\ history # <<>>
    /\ history = last.history

\* C4: an empty or all-whitespace line raises nothing, emits no message,
\* invokes no handler, leaves the history as it was and writes the prompt
\* exactly once.
C4_BlankLineOnlyPrompts ==
    ( /\ LineDone
      /\ Decode(LastLine).ok
      /\ \A k \in 1..Len(Decode(LastLine).text) : IsSpace(Decode(LastLine).text[k]) )
    => /\ raised = "none"
       /\ Emitted = <<Write(prompt)>>
       /\ InvokedNow = <<>>
       /\ CallsNow = <<>>
       /\ StopsNow = 0
       /\ history = last.history

\* a line of a space and a tab was answered by the prompt alone, with a
\* command already in the history
C4_Witness ==
    /\ LineDone
    /\ LastLine = <<32, 9>>
    /\ Emitted = <<Write(prompt)>>
    /\ history # <<>>

\* C5: whatever the line was (a command, an unknown token, empty input,
\* undecodable bytes, a command whose handler failed), processing it ends
\* with the prompt written and the callback returning.
C5_PromptAfterEveryLine ==
    LineDone => raised = "none" /\ EndsWithPrompt(Emitted)

\* C6: bytes that are not UTF-8 are recovered from locally: a decode error
\* is reported, the history is not changed, no handler is invoked and the
\* prompt is written again.
C6_DecodeErrorRecovered ==
    LineDone /\ ~Decode(LastLine).ok =>
        /\ raised = "none"
        /\ \E i \in 1..Len(Emitted) : Emitted[i].chan = "stdout"
        /\ EndsWithPrompt(Emitted)
        /\ InvokedNow = <<>>
        /\ history = last.history

\* C7: an error raised inside a handler, of any kind, leaves lineReceived
\* as it is and is never reported as invalid input.
C7_HandlerErrorPropagates ==
    LineDone /\ InvokedNow # <<>> /\ LastOutcome # "none" =>
        /\ raised = LastOutcome
        /\ Count(Emitted, IsInvalidInput) = 0

\* C8: a successful dispatch appends the decoded raw line as received, not
\* the lookup key, and writes the prompt; the history never holds a line
\* that does not spell a registered token.
C8_HistoryKeepsRawLine ==
    /\ ( LineDone /\ WasAccepted(received[Len(received)]) =>
            /\ Len(InvokedNow) = 1
            /\ history # <<>>
            /\ Encode(history[Len(history)]) = LastLine
            /\ SubSeq(history, 1, Len(history) - 1)
                 = LastN(last.history, Len(history) - 1)
            /\ EndsWithPrompt(Emitted) )
    /\ \A i \in 1..Len(history) : SpellsSomeToken(history[i])

\* "STATUS" invoked paintStatus once, was appended as "STATUS" and the
\* prompt followed
C8_Witness ==
    /\ LineDone
    /\ LastLine = Encode(Str(<<"S", "T", "A", "T", "U", "S">>))
    /\ InvokedNow = <<"paintStatus">>
    /\ history # <<>>
    /\ history[Len(history)] = Str(<<"S", "T", "A", "T", "U", "S">>)
    /\ history[Len(history)] # Normalize(history[Len(history)])
    /\ EndsWithPrompt(Emitted)

\* C9: connectionLost calls the node's stop_learning_loop exactly once, with
\* the cause it was given, writes nothing and does not stop the reactor.
C9_LostForwardsCause ==
    last.op = "connectionLost" =>
        /\ CallsNow = <<[method |-> "stop_learning_loop", reason |-> last.reason]>>
        /\ Emitted = <<>>
        /\ InvokedNow = <<>>
        /\ StopsNow = 0

\* the connection was aborted after a line, with "stop" never sent
C9_Witness ==
    /\ last.op = "connectionLost"
    /\ last.reason = "connectionAborted"
    /\ received # <<>>
    /\ reactorStops = 0
    /\ ursulaCalls[Len(ursulaCalls)].reason = "connectionAborted"

\* C10: reactor.stop() has been called exactly once for every delivered
\* line that normalises to "stop", and by nothing else.
C10_HaltOncePerStop ==
    reactorStops =
        Cardinality({i \in 1..Len(received) :
                        /\ Decode(received[i].line).ok
                        /\ Normalize(Decode(received[i].line).text)
                             = Str(<<"s", "t", "o", "p">>)})

\* the connection was lost after a "stop" line and another command
C10_Witness ==
    /\ phase = "lost"
    /\ Len(received) = 2
    /\ Len(invoked) = 2
    /\ reactorStops = 1

\* C11: if a registered command has no description, construction fails:
\* no connection is made and no line is processed.
C11_MissingDocFailsAtBuild ==
    (\E i \in 1..Len(commands) : commands[i].handler \notin Documented)
        => phase = "constructed" /\ received = <<>>

IsStdout(e) == e.chan = "stdout"

\* the last line was undecodable, or decodable and an unknown non-empty token
LastLineRecoverable ==
    \/ ~Decode(LastLine).ok
    \/ /\ Normalize(Decode(LastLine).text) # <<>>
       /\ Normalize(Decode(LastLine).text) \notin Tokens

LastLineBlank ==
    /\ Decode(LastLine).ok
    /\ \A k \in 1..Len(Decode(LastLine).text) : IsSpace(Decode(LastLine).text[k])

\* C12: every recoverable error (undecodable bytes, an unknown non-empty
\* token) produces exactly one operator-facing message followed by exactly
\* one prompt, and only a blank line produces no operator-facing text.
C12_OneMessagePerRecoverableError ==
    LineDone =>
        /\ LastLineRecoverable =>
              /\ Count(Emitted, IsStdout) = 1
              /\ Count(Emitted, IsPromptWrite) = 1
              /\ EndsWithPrompt(Emitted)
        /\ Count(Emitted, IsStdout) = 0 => LastLineBlank

\* the nine tokens in registration order, joined by ", "
ExpectedOptions ==
    LET sep == <<44, 32>>
    IN  Str(<<"?">>) \o sep
        \o Str(<<"h", "e", "l", "p">>) \o sep
        \o Str(<<"s", "t", "a", "t", "u", "s">>) \o sep
        \o Str(<<"k", "n", "o", "w", "n", "_", "n", "o", "d", "e", "s">>) \o sep
        \o Str(<<"f", "l", "e", "e", "t", "_", "s", "t", "a", "t", "e">>) \o sep
        \o Str(<<"c", "y", "c", "l", "e", "_", "t", "e", "a", "c", "h", "e", "r">>)
        \o sep
        \o Str(<<"s", "t", "a", "r", "t", "_", "l", "e", "a", "r", "n", "i", "n",
                 "g">>) \o sep
        \o Str(<<"s", "t", "o", "p", "_", "l", "e", "a", "r", "n", "i", "n", "g">>)
        \o sep
        \o Str(<<"s", "t", "o", "p">>)

\* C13: every invalid-input message, at every point of the session, lists the
\* nine registered tokens, each once, in registration order.
C13_InvalidInputListsAllTokens ==
    /\ \A i \in 1..Len(output) :
          IsInvalidInput(output[i]) => output[i].args = <<ExpectedOptions>>
    /\ ( /\ LineDone
         /\ Decode(LastLine).ok
         /\ ~LastLineBlank
         /\ ~SpellsSomeToken(Decode(LastLine).text) )
       => Count(Emitted, IsInvalidInput) = 1

\* two unknown tokens in a row each drew the message
C13_Witness ==
    /\ LineDone
    /\ Len(received) = 2
    /\ \A i \in 1..2 : received[i].line
          = Encode(Str(<<"f", "r", "o", "b", "n", "i", "c", "a", "t", "e">>))
    /\ Count(output, IsInvalidInput) = 2
    /\ Emitted[1].args = <<ExpectedOptions>>

\* C14: connectionMade emits the banner and then the prompt, once; after it
\* the output is, for each processed line, its response (if any) followed by
\* the prompt: every line's output ends with the one prompt of that line.
C14_BannerThenResponsePromptPairs ==
    /\ last.op = "connectionMade" =>
          /\ Len(Emitted) = 4
          /\ \A i \in 1..3 : IsStdout(Emitted[i])
          /\ Emitted[1].args = <<ursula.checksum_public_address, ursula.rest_url>>
          /\ IsPromptWrite(Emitted[4])
    /\ output # <<>> => output[1].fmt = "Attached {}@{}"
    /\ LineDone =>
          /\ Count(Emitted, IsPromptWrite) = 1
          /\ EndsWithPrompt(Emitted)
    /\ phase # "constructed" => Count(output, IsPromptWrite) = 1 + Len(received)

\* the names help lists and the docstrings that describe them, in
\* registration order
ExpectedHelp ==
    << <<Str(<<"h", "e", "l", "p">>), Doc_paintHelp>>,
       <<Str(<<"s", "t", "a", "t", "u", "s">>), Doc_paintStatus>>,
       <<Str(<<"k", "n", "o", "w", "n", "_", "n", "o", "d", "e", "s">>),
         Doc_paintKnownNodes>>,
       <<Str(<<"f", "l", "e", "e", "t", "_", "s", "t", "a", "t", "e">>),
         Doc_paintFleetState>>,
       <<Str(<<"c", "y", "c", "l", "e", "_", "t", "e", "a", "c", "h", "e", "r">>),
         Doc_cycle_teacher>>,
       <<Str(<<"s", "t", "a", "r", "t", "_", "l", "e", "a", "r", "n", "i", "n",
               "g">>), Doc_start_learning>>,
       <<Str(<<"s", "t", "o", "p", "_", "l", "e", "a", "r", "n", "i", "n", "g">>),
         Doc_stop_learning>>,
       <<Str(<<"s", "t", "o", "p">>), Doc_stop>> >>

\* doc without the blanks it begins with
IsLeftTrimOf(text, doc) ==
    /\ text # <<>>
    /\ text[1] \notin {10, 32}
    /\ Len(text) <= Len(doc)
    /\ text = SubSeq(doc, Len(doc) - Len(text) + 1, Len(doc))
    /\ \A k \in 1..(Len(doc) - Len(text)) : doc[k] \in {10, 32}

LastLineAsksHelp ==
    /\ Decode(LastLine).ok
    /\ \/ Spells(Decode(LastLine).text, Str(<<"?">>))
       \/ Spells(Decode(LastLine).text, Str(<<"h", "e", "l", "p">>))

\* C15: "help" and "?" both run paintHelp, which prints, after its heading,
\* the name and description of the 8 entries other than "?", each once, in
\* registration order.
C15_HelpListsEightEntries ==
    LineDone /\ LastLineAsksHelp =>
        /\ InvokedNow = <<"paintHelp">>
        /\ Len(Emitted) = 10
        /\ Emitted[1] = Secho("Ursula Command Help", <<>>)
        /\ \A i \in 1..8 :
              /\ IsStdout(Emitted[i + 1])
              /\ Emitted[i + 1].args[1] = ExpectedHelp[i][1]
              /\ IsLeftTrimOf(Emitted[i + 1].args[3], ExpectedHelp[i][2])
        /\ IsPromptWrite(Emitted[10])

\* a padded "?" printed the heading and the entries from help to stop
C15_Witness ==
    /\ LineDone
    /\ Decode(LastLine).ok
    /\ Spells(Decode(LastLine).text, Str(<<"?">>))
    /\ Len(LastLine) > 1
    /\ Len(Emitted) = 10
    /\ Emitted[2].args[1] = Str(<<"h", "e", "l", "p">>)
    /\ Emitted[9].args[1] = Str(<<"s", "t", "o", "p">>)

\* the node controls each command is to call
ExpectedControls ==
    << <<Str(<<"?">>), <<>>>>,
       <<Str(<<"h", "e", "l", "p">>), <<>>>>,
       <<Str(<<"s", "t", "a", "t", "u", "s">>), <<>>>>,
       <<Str(<<"k", "n", "o", "w", "n", "_", "n", "o", "d", "e", "s">>), <<>>>>,
       <<Str(<<"f", "l", "e", "e", "t", "_", "s", "t", "a", "t", "e">>), <<>>>>,
       <<Str(<<"c", "y", "c", "l", "e", "_", "t", "e", "a", "c", "h", "e", "r">>),
         <<[method |-> "cycle_teacher_node", reason |-> "<default>"]>>>>,
       <<Str(<<"s", "t", "a", "r", "t", "_", "l", "e", "a", "r", "n", "i", "n",
               "g">>),
         <<[method |-> "start_learning_loop", reason |-> "<default>"]>>>>,
       <<Str(<<"s", "t", "o", "p", "_", "l", "e", "a", "r", "n", "i", "n", "g">>),
         <<[method |-> "stop_learning_loop", reason |-> "<default>"]>>>> >>

\* C16: cycle_teacher, start_learning and stop_learning each call their own
\* node control, once, and no other (stop_learning without a cause); help,
\* status, known_nodes and fleet_state call no node control.
C16_CommandsCallOwnControl ==
    LineDone /\ Decode(LastLine).ok =>
        \A i \in 1..Len(ExpectedControls) :
            Spells(Decode(LastLine).text, ExpectedControls[i][1])
                => CallsNow = ExpectedControls[i][2]

\* an upper-case START_LEARNING called start_learning_loop and nothing else
C16_Witness ==
    /\ LineDone
    /\ Decode(LastLine).ok
    /\ Spells(Decode(LastLine).text, ExpectedControls[7][1])
    /\ Decode(LastLine).text # ExpectedControls[7][1]
    /\ ursulaCalls = <<[method |-> "start_learning_loop", reason |-> "<default>"]>>
    /\ reactorStops = 0

\* C17: no step of the session changes its node, its start time, its prompt,
\* or the names of its commands and their order, and the names stay unique.
C17_SessionFieldsFrozen ==
    [][ /\ ursula' = ursula
        /\ start_time' = start_time
        /\ prompt' = prompt
        /\ Keys(commands') = Keys(commands)
        /\ \A i, j \in 1..Len(commands') :
              commands'[i].name = commands'[j].name => i = j ]_vars

\* a session that was connected, fed two lines and lost still has the
\* prompt of its node and the nine names
C17_Witness ==
    /\ phase = "lost"
    /\ Len(received) = 2
    /\ invoked # <<>>
    /\ prompt = Encode(Str(<<"U", "r", "s", "u", "l", "a", "(">>)
                       \o SubSeq(ursula.checksum_public_address, 1, 9)
                       \o Str(<<")", " ", ">", ">", ">", " ">>))
    /\ Len(commands) = 9

\* the last line spelled a registered token and its handler returned
LastLineDispatched ==
    /\ Decode(LastLine).ok
    /\ SpellsSomeToken(Decode(LastLine).text)
    /\ LastOutcome = "none"

\* C18: the history is appended to if and only if the lookup hit and the
\* handler returned; when a handler raises any error the history is left as
\* it was.
C18_AppendIffHandlerReturned ==
    LineDone =>
        /\ LastLineDispatched =>
              history = LastN(Append(last.history, Decode(LastLine).text), 10)
        /\ ~LastLineDispatched => history = last.history

\* a handler raised after an earlier command had been recorded: the
\* history still holds that command alone
C18_Witness ==
    /\ LineDone
    /\ InvokedNow # <<>>
    /\ LastOutcome = "RuntimeError"
    /\ raised = "RuntimeError"
    /\ Len(history) = 1
    /\ history = last.history

LastLineIsStop ==
    /\ Decode(LastLine).ok
    /\ Normalize(Decode(LastLine).text) = Str(<<"s", "t", "o", "p">>)

\* C19: a "stop" line asks the reactor to stop first and is then treated as
\* any command: when the request returns, the raw line is appended and the
\* prompt written once; when the request fails, the reactor was asked all
\* the same and neither the append nor the prompt has happened.
C19_HaltBeforeHistoryAndPrompt ==
    LineDone /\ LastLineIsStop =>
        /\ InvokedNow = <<"stop">>
        /\ StopsNow = 1
        /\ LastOutcome = "none" =>
              /\ raised = "none"
              /\ history = LastN(Append(last.history, Decode(LastLine).text), 10)
              /\ Emitted = <<Write(prompt)>>
        /\ raised # "none" =>
              /\ history = last.history
              /\ Emitted = <<>>

\* " stop" was answered by one halt request, the raw line in the history
\* and the prompt
C19_Witness ==
    /\ LineDone
    /\ LastLineIsStop
    /\ LastOutcome = "none"
    /\ StopsNow = 1
    /\ history # <<>>
    /\ Encode(history[Len(history)]) = LastLine
    /\ history[Len(history)] # Str(<<"s", "t", "o", "p">>)
    /\ Emitted = <<Write(prompt)>>

\* the delivered lines after which lineReceived returned
Returned(e) == Decode(e.line).ok /\ e.outcome # "RuntimeError"

\* what one session's history and prompt count are, from its own lines alone
OwnHistory(rec) ==
    LET acc == SelectSeq(rec, WasAccepted)
    IN  LastN([i \in 1..Len(acc) |-> Decode(acc[i].line).text], 10)

OwnPrompts(ph, rec) ==
    (IF ph = "constructed" THEN 0 ELSE 1)
        + Cardinality({i \in 1..Len(rec) : Returned(rec[i])})

\* how many lines of rec spell the token tok
Asked(rec, tok) ==
    Cardinality({i \in 1..Len(rec) :
        Decode(rec[i].line).ok /\ Spells(Decode(rec[i].line).text, Str(tok))})

IsStopLearningCall(c) == c = Call("stop_learning_loop", NoReason)

PeerRanLast ==
    last.op \in {"peer.connectionMade", "peer.lineReceived",
                 "peer.connectionLost"}

\* C20: with two sessions on one node, under every interleaving, each
\* session's history and number of prompts are determined by the lines it
\* received itself, a callback of one session leaves the other's history and
\* transport alone, and the node controls and the reactor halt of both
\* sessions land on the one node and the one reactor.
C20_SessionsIsolatedNodeShared ==
    /\ history = OwnHistory(received)
    /\ peer.history = OwnHistory(peer.received)
    /\ Count(output, IsPromptWrite) = OwnPrompts(phase, received)
    /\ Len(peer.transport) = OwnPrompts(peer.phase, peer.received)
    /\ \A i \in 1..Len(peer.transport) : peer.transport[i] = Write(peer.prompt)
    /\ PeerRanLast =>
          /\ history = last.history
          /\ Count(Emitted, IsPromptWrite) = 0
    /\ reactorStops =
          Asked(received, <<"s", "t", "o", "p">>)
              + Asked(peer.received, <<"s", "t", "o", "p">>)
    /\ Count(ursulaCalls, IsStopLearningCall) =
          Asked(received, <<"s", "t", "o", "p", "_", "l", "e", "a", "r", "n",
                            "i", "n", "g">>)
              + Asked(peer.received, <<"s", "t", "o", "p", "_", "l", "e", "a",
                                       "r", "n", "i", "n", "g">>)

\* the first session was given stop_learning, then the second " stop": each
\* history holds its own line only, the node got the control and the reactor
\* the halt
C20_Witness ==
    /\ last.op = "peer.lineReceived"
    /\ Len(history) = 1
    /\ Len(peer.history) = 1
    /\ history # peer.history
    /\ Encode(peer.history[1]) = peer.received[1].line
    /\ Asked(peer.received, <<"s", "t", "o", "p">>) = 1
    /\ reactorStops = 1
    /\ Count(ursulaCalls, IsStopLearningCall) = 1
    /\ Count(output, IsPromptWrite) = 2
    /\ Len(peer.transport) = 2

====
